---- MODULE Spec2Model ----
(***************************************************************************)
(* A model of dags/gcs_log_extract_dag.py: the daily DAG                   *)
(*   list_log_files_in_gcs >> log_gcs_files >>                             *)
(*   transform_logs_feature_engineering >> load_to_bigquery                *)
(* with the pandas table operations of transform_logs and load_to_bigquery *)
(* modelled on cell values.                                                *)
(*                                                                         *)
(* A delimited file is a header (a sequence of labels, each a sequence of  *)
(* characters) and lines of cell texts.  A cell text is a tagged record:   *)
(* an integer literal, a decimal literal n/d, the literal 1e+30, the empty *)
(* cell, a timestamp literal, a date literal, or any other text.  A        *)
(* DataFrame holds typed values; read_csv infers each column's type from   *)
(* all of its cell texts and to_csv formats each value back to a text, so  *)
(* the hand-off between the two tasks loses and re-infers the types.       *)
(***************************************************************************)
EXTENDS Integers, Sequences, FiniteSets, TLC

\* The largest number of data lines in the stored object.
MaxRows == 2

----------------------------------------------------------------------------
(* Cell texts of a delimited file *)

TInt(n) == [k |-> "int", n |-> n]
TFloat(n, d) == [k |-> "float", n |-> n, d |-> d]
THuge == [k |-> "huge"]
TEmpty == [k |-> "empty"]
TStamp(d, h) == [k |-> "stamp", d |-> d, h |-> h]
TDate(d) == [k |-> "date", d |-> d]
TStr(s) == [k |-> "str", s |-> s]

(* Values of a DataFrame cell *)

VInt(n) == [k |-> "int64", n |-> n]
VFloat(n, d) == [k |-> "float64", n |-> n, d |-> d]
VHuge == [k |-> "float64", huge |-> TRUE]
NaN == [k |-> "nan"]
VStr(t) == [k |-> "object", t |-> t]
VTs(d, h) == [k |-> "datetime64", d |-> d, h |-> h]
NaT == [k |-> "nat"]
VDate(d) == [k |-> "date", d |-> d]
\* What a cast of an out-of-range float to int64 leaves: no error is raised
\* and the number stored is not the value (numpy's cast, warning suppressed).
VWrapped == [k |-> "int64", wrapped |-> TRUE]

IsMissing(v) == v = NaN \/ v = NaT

RECURSIVE Gcd(_, _)
Gcd(a, b) == IF b = 0 THEN a ELSE Gcd(b, a % b)

\* The float n/d in lowest terms.
Ratio(n, d) == LET g == Gcd(n, d) IN VFloat(n \div g, d \div g)

----------------------------------------------------------------------------
(* Column labels: str.strip() and str.lower() *)

ToLower ==
    ("T" :> "t") @@ ("I" :> "i") @@ ("M" :> "m") @@ ("E" :> "e") @@
    ("S" :> "s") @@ ("A" :> "a") @@ ("P" :> "p") @@ ("L" :> "l") @@
    ("O" :> "o") @@ ("G" :> "g") @@ ("V" :> "v") @@ ("R" :> "r") @@
    ("C" :> "c") @@ ("U" :> "u") @@ ("D" :> "d") @@ ("H" :> "h")

ToUpper ==
    ("t" :> "T") @@ ("i" :> "I") @@ ("m" :> "M") @@ ("e" :> "E") @@
    ("s" :> "S") @@ ("a" :> "A") @@ ("p" :> "P") @@ ("l" :> "L") @@
    ("o" :> "O") @@ ("g" :> "G") @@ ("v" :> "V") @@ ("r" :> "R") @@
    ("c" :> "C") @@ ("u" :> "U") @@ ("d" :> "D") @@ ("h" :> "H")

RECURSIVE lstrip(_)
lstrip(s) == IF s # <<>> /\ Head(s) = " " THEN lstrip(Tail(s)) ELSE s

RECURSIVE rstrip(_)
rstrip(s) ==
    IF s # <<>> /\ s[Len(s)] = " " THEN rstrip(SubSeq(s, 1, Len(s) - 1)) ELSE s

\* A strip that leaves trailing whitespace.
strip_leading_only(s) == lstrip(s)

str_strip(s) == rstrip(lstrip(s))

str_lower(s) ==
    [i \in 1..Len(s) |-> IF s[i] \in DOMAIN ToLower THEN ToLower[s[i]] ELSE s[i]]

c_timestamp == <<"t", "i", "m", "e", "s", "t", "a", "m", "p">>
c_log_level == <<"l", "o", "g", "_", "l", "e", "v", "e", "l">>
c_service == <<"s", "e", "r", "v", "i", "c", "e">>
c_message == <<"m", "e", "s", "s", "a", "g", "e">>
c_user_id == <<"u", "s", "e", "r", "_", "i", "d">>
c_host == <<"h", "o", "s", "t">>
c_event_date == <<"e", "v", "e", "n", "t", "_", "d", "a", "t", "e">>
c_hour_of_day == <<"h", "o", "u", "r", "_", "o", "f", "_", "d", "a", "y">>
c_is_error == <<"i", "s", "_", "e", "r", "r", "o", "r">>
c_log_level_encoded ==
    c_log_level \o <<"_", "e", "n", "c", "o", "d", "e", "d">>
c_message_length == c_message \o <<"_", "l", "e", "n", "g", "t", "h">>
c_service_error_rate == c_service \o <<"_">> \o <<"e", "r", "r", "o", "r">>
                            \o <<"_", "r", "a", "t", "e">>

required_columns_weak == {c_timestamp, c_log_level, c_service, c_message}

required_columns ==
    {c_timestamp, c_log_level, c_service, c_message, c_user_id}

----------------------------------------------------------------------------
(* DataFrames *)

Range(s) == {s[i] : i \in 1..Len(s)}

NoDf == [k |-> "None"]

HasColumn(df, name) == name \in Range(df.columns)

ColIdx(df, name) == CHOOSE i \in 1..Len(df.columns) : df.columns[i] = name

\* df[name]
Column(df, name) ==
    [r \in 1..Len(df.rows) |-> df.rows[r][ColIdx(df, name)]]

\* df[name] = vals: replaces the column, or appends a new one.
SetColumn(df, name, vals) ==
    IF HasColumn(df, name)
    THEN [df EXCEPT !.rows =
            [r \in 1..Len(df.rows) |->
                [df.rows[r] EXCEPT ![ColIdx(df, name)] = vals[r]]]]
    ELSE [columns |-> Append(df.columns, name),
          rows |-> [r \in 1..Len(df.rows) |-> Append(df.rows[r], vals[r])]]

\* read_csv's type inference for one column, from all of its cell texts.
InferColumn(texts) ==
    IF \A i \in 1..Len(texts) : texts[i].k = "int"
    THEN [i \in 1..Len(texts) |-> VInt(texts[i].n)]
    ELSE IF \A i \in 1..Len(texts) :
                texts[i].k \in {"int", "float", "huge", "empty"}
    THEN [i \in 1..Len(texts) |->
            CASE texts[i].k = "int" -> VFloat(texts[i].n, 1)
              [] texts[i].k = "float" -> Ratio(texts[i].n, texts[i].d)
              [] texts[i].k = "huge" -> VHuge
              [] OTHER -> NaN]
    ELSE [i \in 1..Len(texts) |->
            IF texts[i].k = "empty" THEN NaN ELSE VStr(texts[i])]

\* pd.read_csv(StringIO(text)): the header gives the labels as written.
read_csv(file) ==
    LET col(c) == InferColumn([r \in 1..Len(file.lines) |-> file.lines[r][c]])
    IN [columns |-> file.header,
        rows |-> [r \in 1..Len(file.lines) |->
                    [c \in 1..Len(file.header) |-> col(c)[r]]]]

\* A writer that formats a timestamp with its date alone.
FormatValueDateOnly(v) ==
    CASE v.k = "int64" -> TInt(v.n)
      [] v.k = "float64" -> IF v = VHuge THEN THuge ELSE TFloat(v.n, v.d)
      [] v.k = "object" -> v.t
      [] v.k = "datetime64" -> TDate(v.d)
      [] v.k = "date" -> TDate(v.d)
      [] OTHER -> TEmpty

\* How to_csv writes one value.
FormatValue(v) ==
    CASE v.k = "int64" -> TInt(v.n)
      [] v.k = "float64" -> IF v = VHuge THEN THuge ELSE TFloat(v.n, v.d)
      [] v.k = "object" -> v.t
      [] v.k = "datetime64" -> TStamp(v.d, v.h)
      [] v.k = "date" -> TDate(v.d)
      [] OTHER -> TEmpty

\* df.to_csv(index=False)
to_csv(df) ==
    [header |-> df.columns,
     lines |-> [r \in 1..Len(df.rows) |-> [c \in 1..Len(df.rows[r]) |-> FormatValue(df.rows[r][c])]]]

----------------------------------------------------------------------------
(* Exceptions *)

NoErr == [type |-> "None", msg |-> "", detail |-> <<>>]

Err(type, msg, detail) == [type |-> type, msg |-> msg, detail |-> detail]

Raised(x) == [ok |-> FALSE, err |-> x]

Ok(x) == [ok |-> TRUE, val |-> x]

----------------------------------------------------------------------------
(* Element-wise conversions of pandas *)

\* The column type pandas holds the values in.
DType(vals) ==
    IF \A i \in 1..Len(vals) : vals[i].k = "int64" THEN "int64"
    ELSE IF \A i \in 1..Len(vals) : vals[i].k \in {"float64", "nan"}
    THEN "float64"
    ELSE IF \A i \in 1..Len(vals) : vals[i].k \in {"datetime64", "nat"}
    THEN "datetime64"
    ELSE "object"

\* Whether pd.to_datetime accepts the value.
CanParseTime(v) ==
    CASE v.k = "object" -> v.t.k \in {"stamp", "date"}
      [] v.k = "float64" -> v # VHuge
      [] OTHER -> TRUE

\* pd.to_datetime on one value: a number counts nanoseconds from the epoch
\* (day 0, hour 0); a missing value becomes NaT.
ParseTime(v) ==
    CASE v.k = "object" -> VTs(v.t.d, IF v.t.k = "stamp" THEN v.t.h ELSE 0)
      [] v.k = "datetime64" -> v
      [] v.k = "date" -> VTs(v.d, 0)
      [] v.k \in {"int64", "float64"} -> VTs(0, 0)
      [] OTHER -> NaT

\* pd.to_datetime(series): one unparseable value raises for the whole column.
to_datetime(vals) ==
    IF \A i \in 1..Len(vals) : CanParseTime(vals[i])
    THEN Ok([i \in 1..Len(vals) |-> ParseTime(vals[i])])
    ELSE Raised(Err("DateParseError", "Unknown datetime string format", <<>>))

\* series.dt.date
dt_date(vals) ==
    [i \in 1..Len(vals) |-> IF vals[i] = NaT THEN NaT ELSE VDate(vals[i].d)]

\* series.dt.hour: a float column as soon as one value is NaT.
dt_hour(vals) ==
    IF \E i \in 1..Len(vals) : vals[i] = NaT
    THEN [i \in 1..Len(vals) |->
            IF vals[i] = NaT THEN NaN ELSE VFloat(vals[i].h, 1)]
    ELSE [i \in 1..Len(vals) |-> VInt(vals[i].h)]

Trunc(n, d) == IF n >= 0 THEN n \div d ELSE -((-n) \div d)

\* int(x) of one element of an object column succeeds.
CanInt(v) == v.k = "int64" \/ (v.k = "object" /\ v.t.k = "int")

\* float(x) of one element of an object column succeeds.
CanFloat(v) ==
    \/ v.k \in {"int64", "float64", "nan"}
    \/ (v.k = "object" /\ v.t.k \in {"int", "float", "huge"})

\* series.astype("int64").  A float column raises only for a non-finite
\* value; the finite ones are cast, fractions truncated toward zero and
\* out-of-range numbers without any check.  An object column converts each
\* element with int().
astype_int64(vals) ==
    CASE DType(vals) = "int64" -> Ok(vals)
      [] DType(vals) = "float64" ->
            IF \E i \in 1..Len(vals) : vals[i] = NaN
            THEN Raised(Err("IntCastingNaNError",
                    "Cannot convert non-finite values (NA or inf) to integer",
                    <<>>))
            ELSE Ok([i \in 1..Len(vals) |->
                    IF vals[i] = VHuge THEN VWrapped
                    ELSE VInt(Trunc(vals[i].n, vals[i].d))])
      [] OTHER ->
            IF \A i \in 1..Len(vals) : CanInt(vals[i])
            THEN Ok([i \in 1..Len(vals) |->
                    IF vals[i].k = "int64" THEN vals[i]
                    ELSE VInt(vals[i].t.n)])
            ELSE Raised(Err("ValueError", "invalid literal for int()", <<>>))

\* series.astype("float64")
astype_float64(vals) ==
    IF \A i \in 1..Len(vals) : CanFloat(vals[i])
    THEN Ok([i \in 1..Len(vals) |->
            CASE vals[i].k = "int64" -> VFloat(vals[i].n, 1)
              [] vals[i].k = "object" /\ vals[i].t.k = "int" ->
                    VFloat(vals[i].t.n, 1)
              [] vals[i].k = "object" /\ vals[i].t.k = "float" ->
                    Ratio(vals[i].t.n, vals[i].t.d)
              [] vals[i].k = "object" /\ vals[i].t.k = "huge" -> VHuge
              [] OTHER -> vals[i]])
    ELSE Raised(Err("ValueError", "could not convert string to float", <<>>))

RECURSIVE Digits(_)
Digits(n) == IF n < 10 THEN 1 ELSE 1 + Digits(n \div 10)

\* The number of characters a float's text has ("12.0", "1.5", or the 18
\* characters of a non-terminating fraction below 10).
FloatLen(n, d) == IF d \in {1, 2} THEN Digits(n \div d) + 2 ELSE 18

\* The number of characters of a cell text.
TextLen(t) ==
    CASE t.k = "str" -> Len(t.s)
      [] t.k = "int" -> Digits(t.n)
      [] t.k = "float" -> FloatLen(t.n, t.d)
      [] t.k = "huge" -> 5
      [] t.k = "stamp" -> 19
      [] t.k = "date" -> 10
      [] OTHER -> 0

\* len(str(v)): astype(str) writes a missing value as "nan".
StrLen(v) ==
    CASE v.k = "object" -> TextLen(v.t)
      [] v.k = "int64" -> Digits(v.n)
      [] v.k = "float64" -> IF v = VHuge THEN 5 ELSE FloatLen(v.n, v.d)
      [] v.k = "nan" -> 3
      [] OTHER -> TextLen(FormatValue(v))

----------------------------------------------------------------------------
(* transform_logs: the steps on the DataFrame *)

bucket_name == "ai-log-raw-data-215"
object_name == "sample_logs.csv"

\* df.columns = df.columns.str.strip().str.lower()
Normalize(df) ==
    [df EXCEPT !.columns =
        [i \in 1..Len(df.columns) |-> str_lower(str_strip(df.columns[i]))]]

\* not required_columns.issubset(df.columns)
MissingRequired(df) == ~(required_columns \subseteq Range(df.columns))

SchemaError(df) ==
    Err("ValueError", "Missing required columns. Found:", df.columns)

log_level_map == ("INFO" :> 0) @@ ("WARN" :> 1) @@ ("ERROR" :> 2)

\* (df["log_level"] == "ERROR").astype(int)
is_error(vals) ==
    [i \in 1..Len(vals) |->
        IF vals[i] = VStr(TStr("ERROR")) THEN VInt(1) ELSE VInt(0)]

Mapped(v) == v.k = "object" /\ v.t.k = "str" /\ v.t.s \in DOMAIN log_level_map

\* A map that encodes an unmapped level as 0.
map_log_level_default0(vals) ==
    [i \in 1..Len(vals) |->
        IF Mapped(vals[i]) THEN VInt(log_level_map[vals[i].t.s]) ELSE VInt(0)]

\* df["log_level"].map(log_level_map): a value that is no key maps to NaN,
\* and one NaN makes the column a float column.
map_log_level(vals) ==
    IF \A i \in 1..Len(vals) : Mapped(vals[i])
    THEN [i \in 1..Len(vals) |-> VInt(log_level_map[vals[i].t.s])]
    ELSE [i \in 1..Len(vals) |->
            IF Mapped(vals[i]) THEN VFloat(log_level_map[vals[i].t.s], 1)
            ELSE NaN]

\* df["message"].astype(str).apply(len)
message_length(vals) == [i \in 1..Len(vals) |-> VInt(StrLen(vals[i]))]

\* A rate taken over the whole batch instead of per service.
batch_error_rate(services, errors) ==
    [i \in 1..Len(services) |->
        Ratio(Cardinality({j \in 1..Len(services) : errors[j] = VInt(1)}),
              Len(services))]

\* df.groupby("service")["is_error"].mean() mapped back on df["service"]:
\* groupby leaves rows with a missing key out, and map gives them NaN.
service_error_rate(services, errors) ==
    [i \in 1..Len(services) |->
        IF IsMissing(services[i]) THEN NaN
        ELSE LET group == {j \in 1..Len(services) : services[j] = services[i]}
             IN Ratio(Cardinality({j \in group : errors[j] = VInt(1)}),
                      Cardinality(group))]

\* The feature engineering block, in the order of the code.
Engineer(df) ==
    LET ts == to_datetime(Column(df, c_timestamp))
    IN IF ~ts.ok THEN ts
       ELSE LET d1 == SetColumn(df, c_timestamp, ts.val)
                d2 == SetColumn(d1, c_event_date,
                                dt_date(Column(d1, c_timestamp)))
                d3 == SetColumn(d2, c_hour_of_day,
                                dt_hour(Column(d2, c_timestamp)))
                d4 == SetColumn(d3, c_is_error,
                                is_error(Column(d3, c_log_level)))
                d5 == SetColumn(d4, c_log_level_encoded,
                                map_log_level(Column(d4, c_log_level)))
                d6 == SetColumn(d5, c_message_length,
                                message_length(Column(d5, c_message)))
                d7 == SetColumn(d6, c_service_error_rate,
                                service_error_rate(Column(d6, c_service),
                                                   Column(d6, c_is_error)))
            IN Ok(d7)

----------------------------------------------------------------------------
(* load_to_bigquery: the steps on the DataFrame *)

XNone == [k |-> "None"]
XEmptyStr == [k |-> "str", empty |-> TRUE]

\* A check that only catches None.
IsNoneOnly(csv) == csv = XNone

\* not csv_data
Falsy(csv) == csv = XNone \/ csv = XEmptyStr

NoDataError ==
    Err("ValueError", "No transformed data received from XCom", <<>>)

to_date(vals) ==
    LET t == to_datetime(vals) IN IF t.ok THEN Ok(dt_date(t.val)) ELSE t

\* One line of the FIX DATA TYPES block: df[name] = conv(df[name]), where
\* conv is pd.to_datetime, pd.to_datetime(...).dt.date or astype(dtype).
Convert(conv, r, name) ==
    IF ~r.ok THEN r
    ELSE IF ~HasColumn(r.val, name)
    THEN Raised(Err("KeyError", "", name))
    ELSE LET vals == Column(r.val, name)
             c == CASE conv = "to_datetime" -> to_datetime(vals)
                    [] conv = "to_date" -> to_date(vals)
                    [] conv = "int64" -> astype_int64(vals)
                    [] conv = "float64" -> astype_float64(vals)
         IN IF c.ok THEN Ok(SetColumn(r.val, name, c.val))
            ELSE Raised([c.err EXCEPT !.detail = name])

\* The FIX DATA TYPES block, in the order of the code; the first line that
\* raises ends it.
Coerce(df) ==
    LET r1 == Convert("to_datetime", Ok(df), c_timestamp)
        r2 == Convert("to_date", r1, c_event_date)
        r3 == Convert("int64", r2, c_hour_of_day)
        r4 == Convert("int64", r3, c_log_level_encoded)
        r5 == Convert("int64", r4, c_message_length)
        r6 == Convert("int64", r5, c_is_error)
        r7 == Convert("float64", r6, c_service_error_rate)
        r8 == Convert("int64", r7, c_user_id)
    IN r8

table_ref == "ai-ready-etl-pipeline.log_analytics.ai_log_features"

----------------------------------------------------------------------------
(* The stored object: the inputs the model draws from *)

str_upper(s) ==
    [i \in 1..Len(s) |-> IF s[i] \in DOMAIN ToUpper THEN ToUpper[s[i]] ELSE s[i]]

Capitalized(s) == <<ToUpper[s[1]]>> \o Tail(s)

\* One way of writing a label: as is, capitalised, upper case, or padded.
Styles == {"lower", "Title", "UPPER", " padded "}

Styled(name, style) ==
    CASE style = "Title" -> Capitalized(name)
      [] style = "UPPER" -> str_upper(name)
      [] style = " padded " -> <<" ", " ">> \o Capitalized(name) \o <<" ">>
      [] OTHER -> name

Keys == <<"timestamp", "log_level", "service", "message", "user_id">>

KeyLabel ==
    [timestamp |-> c_timestamp, log_level |-> c_log_level,
     service |-> c_service, message |-> c_message, user_id |-> c_user_id,
     host |-> c_host]

H(key, label) == [key |-> key, label |-> label]

\* Every header that writes the five required names, each in some style.
StyledHeaders ==
    {[i \in 1..5 |-> H(Keys[i], Styled(KeyLabel[Keys[i]], st[i]))] :
        st \in [1..5 -> Styles]}

HeaderLower == [i \in 1..5 |-> H(Keys[i], KeyLabel[Keys[i]])]

\* "Timestamp\t Log_Level \tservice\tmessage\tuser_id"
HeaderMixed ==
    <<H("timestamp", Capitalized(c_timestamp)),
      H("log_level", <<" ", "L", "o", "g", "_", "L", "e", "v", "e", "l", " ">>),
      H("service", c_service), H("message", c_message),
      H("user_id", c_user_id)>>

\* All five and one more column, in another order.
HeaderExtra ==
    <<H("user_id", str_upper(c_user_id)), H("host", c_host),
      H("timestamp", c_timestamp), H("log_level", c_log_level),
      H("message", c_message) , H("service", Capitalized(c_service))>>

HeaderNoUserId == SubSeq(HeaderLower, 1, 4)

\* The user id column under another name.
HeaderRenamed ==
    SubSeq(HeaderLower, 1, 4) \o <<H("user_id", <<"U", "s", "e", "r", "I", "d">>)>>

Headers == {HeaderMixed, HeaderExtra, HeaderNoUserId, HeaderRenamed}

T1 == TStamp(1, 10)
T2 == TStamp(1, 23)
T3 == TStamp(2, 0)

Line(ts, lvl, svc, msg, uid) ==
    [timestamp |-> ts, log_level |-> lvl, service |-> svc, message |-> msg,
     user_id |-> uid, host |-> TStr("web-1")]

\* The data lines a stored object is made of: well-formed records, and
\* records with one field unmapped, missing or malformed.
Lines ==
    << Line(T1, TStr("INFO"), TStr("svc-a"), TStr("hello"), TInt(1)),
       Line(T2, TStr("ERROR"), TStr("svc-a"), TStr("oops"), TInt(2)),
       Line(T3, TStr("ERROR"), TStr("svc-b"), TStr("bad"), TInt(3)),
       Line(T1, TStr("WARN"), TStr("svc-b"), TInt(12), TInt(12)),
       Line(T1, TStr("DEBUG"), TStr("svc-a"), TEmpty, TInt(1)),
       Line(T1, TStr("error"), TStr("svc-b"), TStr("hello"), TInt(1)),
       Line(TEmpty, TStr("INFO"), TStr("svc-a"), TStr("hello"), TInt(1)),
       Line(TStr("not-a-date"), TStr("INFO"), TStr("svc-a"), TStr("hello"),
            TInt(1)),
       Line(T1, TStr("ERROR"), TEmpty, TStr("hello"), TInt(1)),
       Line(T1, TStr("INFO"), TStr("svc-a"), TStr("hello"), TEmpty),
       Line(T1, TStr("INFO"), TStr("svc-a"), TStr("hello"), TStr("abc")),
       Line(T1, TStr("INFO"), TStr("svc-a"), TStr("hello"), TFloat(3, 2)),
       Line(T1, TStr("INFO"), TStr("svc-a"), TStr("hello"), THuge) >>

\* Up to MaxRows lines, as indices into Lines in non-decreasing order.
Batches ==
    UNION {{b \in [1..n -> 1..Len(Lines)] :
                \A i \in 1..n : \A j \in 1..n : i <= j => b[i] <= b[j]} :
           n \in 0..MaxRows}

\* The tab-separated object with this header and these lines.
MakeFile(hdr, batch) ==
    [header |-> [i \in 1..Len(hdr) |-> hdr[i].label],
     lines |-> [r \in 1..Len(batch) |->
                    [i \in 1..Len(hdr) |-> Lines[batch[r]][hdr[i].key]]]]

StoredObjects == {MakeFile(h, b) : h \in Headers, b \in Batches}

\* One well-formed batch under every styling of the header.
StyledObjects == {MakeFile(h, <<1, 2>>) : h \in StyledHeaders}

XList(names) == [k |-> "list", names |-> names]

\* What the bucket listing returns: the names of the bucket's objects, in
\* order; the object the transform downloads is not the first of them.
Listings == {XList(<<"archive/old_logs.csv", object_name>>)}

----------------------------------------------------------------------------
(* The DAG run *)

VARIABLES
    storage,     \* the object sample_logs.csv of the bucket
    state,       \* the state of each task instance
    try_number,  \* the attempts each task instance has started
    error,       \* the exception that ended each task's current attempt
    listed,      \* the XCom of list_log_files_in_gcs
    printed,     \* what log_gcs_files printed
    tpc,         \* where transform_logs is
    df,          \* transform_logs' DataFrame
    enriched,    \* the DataFrame transform_logs serialized
    xcom,        \* the XCom of transform_logs_feature_engineering
    lpc,         \* where load_to_bigquery is
    csv_data,    \* load_to_bigquery's pulled text
    ldf,         \* load_to_bigquery's DataFrame
    fetched,     \* the objects gcs_hook.download was asked for, in order
    trail,       \* the stages the current attempts have completed, in order
    calls,       \* the tables given to load_table_from_dataframe, in order
    table        \* the rows of the destination table appended by this run

vars == <<storage, state, try_number, error, listed, printed, tpc, df,
          enriched, xcom, lpc, csv_data, ldf, fetched, trail, calls, table>>

t_list == "list_log_files_in_gcs"
t_log == "log_gcs_files"
t_transform == "transform_logs_feature_engineering"
t_load == "load_to_bigquery"

\* list_gcs_logs >> log_files >> transform_task >> load_bq_task
Chain == <<t_list, t_log, t_transform, t_load>>

Tasks == Range(Chain)

\* A DAG in which the transform has no upstream task.
UpstreamWithoutListing(t) == IF t = t_load THEN {t_transform} ELSE {}

\* The tasks directly upstream of t.
Upstream(t) == {Chain[i] : i \in {j \in 1..(Len(Chain) - 1) : Chain[j + 1] = t}}

\* default_args["retries"]
retries == 1

TransformStages == <<"Normalize", "Validate", "Engineer", "Serialize">>
LoadStages == <<"Deserialize", "Coerce", "Load">>
StageOrder == TransformStages \o LoadStages

InitWith(objects) ==
    /\ storage \in objects
    /\ state = [t \in Tasks |-> "none"]
    /\ try_number = [t \in Tasks |-> 0]
    /\ error = [t \in Tasks |-> NoErr]
    /\ listed = XNone
    /\ printed = <<>>
    /\ tpc = "idle"
    /\ df = NoDf
    /\ enriched = NoDf
    /\ xcom = XNone
    /\ lpc = "idle"
    /\ csv_data = XNone
    /\ ldf = NoDf
    /\ fetched = <<>>
    /\ trail = <<>>
    /\ calls = <<>>
    /\ table = <<>>

Init == InitWith(StoredObjects)

InitStyled == InitWith(StyledObjects)

\* The function's locals when the task starts.
Locals(t) ==
    /\ tpc' = IF t = t_transform THEN "start" ELSE tpc
    /\ lpc' = IF t = t_load THEN "start" ELSE lpc
    /\ trail' = CASE t = t_transform -> <<>>
                  [] t = t_load -> SelectSeq(trail,
                                      LAMBDA x : x \in Range(TransformStages))
                  [] OTHER -> trail

\* The scheduler starts a task, for the first time or again after a failed
\* attempt, once every upstream task has succeeded (trigger rule all_success).
Start(t) ==
    /\ state[t] \in {"none", "up_for_retry"}
    /\ \A u \in Upstream(t) : state[u] = "success"
    /\ state' = [state EXCEPT ![t] = "running"]
    /\ try_number' = [try_number EXCEPT ![t] = @ + 1]
    /\ error' = [error EXCEPT ![t] = NoErr]
    /\ Locals(t)
    /\ UNCHANGED <<storage, listed, printed, df, enriched, xcom, csv_data, ldf,
                   fetched, calls, table>>

\* A task whose upstream task failed does not run.
UpstreamFailed(t) ==
    /\ state[t] = "none"
    /\ \E u \in Upstream(t) : state[u] \in {"failed", "upstream_failed"}
    /\ state' = [state EXCEPT ![t] = "upstream_failed"]
    /\ UNCHANGED <<storage, try_number, error, listed, printed, tpc, df, enriched, xcom,
                   lpc, csv_data, ldf, fetched, trail, calls, table>>

\* The attempt of t ends with exception e: the task is retried while
\* try_number <= retries and fails for good after that; its locals are gone.
Fails(t, e) ==
    /\ state' = [state EXCEPT ![t] =
                    IF try_number[t] <= retries THEN "up_for_retry"
                    ELSE "failed"]
    /\ error' = [error EXCEPT ![t] = e]
    /\ tpc' = IF t = t_transform THEN "idle" ELSE tpc
    /\ df' = IF t = t_transform THEN NoDf ELSE df
    /\ lpc' = IF t = t_load THEN "idle" ELSE lpc
    /\ csv_data' = IF t = t_load THEN XNone ELSE csv_data
    /\ ldf' = IF t = t_load THEN NoDf ELSE ldf

Succeeds(t) == state' = [state EXCEPT ![t] = "success"]

\* The object gcs_hook.download is asked for: always the same one.
Download == object_name

ExternalError == Err("Exception", "external service call failed", <<>>)

\* A call to an external service raises: the listing, the XCom pull of
\* log_gcs_files, the download, or the load job (which then appends nothing).
ExternalFailure(t) ==
    /\ state[t] = "running"
    /\ t = t_transform => tpc = "start"
    /\ t = t_load => lpc = "coerced"
    /\ Fails(t, ExternalError)
    /\ fetched' = IF t = t_transform THEN Append(fetched, Download) ELSE fetched
    /\ calls' = IF t = t_load THEN Append(calls, ldf) ELSE calls
    /\ UNCHANGED <<storage, try_number, listed, printed, enriched, xcom, trail,
                   table>>

\* GCSListObjectsOperator pushes the names of the bucket's objects.
ListObjects ==
    /\ state[t_list] = "running"
    /\ listed' \in Listings
    /\ Succeeds(t_list)
    /\ UNCHANGED <<storage, try_number, error, printed, tpc, df, enriched, xcom, lpc,
                   csv_data, ldf, fetched, trail, calls, table>>

log_gcs_files ==
    /\ state[t_log] = "running"
    /\ printed' = <<"Files found in GCS bucket:">> \o
                    (IF listed # XNone /\ listed.names # <<>>
                     THEN listed.names ELSE <<"No files found.">>)
    /\ Succeeds(t_log)
    /\ UNCHANGED <<storage, try_number, error, listed, tpc, df, enriched, xcom, lpc,
                   csv_data, ldf, fetched, trail, calls, table>>

\* A fetch that downloads once and reads a kept copy on a retry.
FetchOnce ==
    /\ state[t_transform] = "running"
    /\ tpc = "start"
    /\ fetched' = IF fetched = <<>> THEN Append(fetched, Download) ELSE fetched
    /\ df' = read_csv(storage)
    /\ tpc' = "fetched"
    /\ UNCHANGED <<storage, state, try_number, error, listed, printed,
                   enriched, xcom, lpc, csv_data, ldf, trail, calls, table>>

\* gcs_hook.download(...).decode("utf-8") and pd.read_csv(..., sep="\t")
Fetch ==
    /\ state[t_transform] = "running"
    /\ tpc = "start"
    /\ fetched' = Append(fetched, Download)
    /\ df' = read_csv(storage)
    /\ tpc' = "fetched"
    /\ UNCHANGED <<storage, state, try_number, error, listed, printed, enriched, xcom,
                   lpc, csv_data, ldf, trail, calls, table>>

NormalizeSchema ==
    /\ state[t_transform] = "running"
    /\ tpc = "fetched"
    /\ df' = Normalize(df)
    /\ tpc' = "normalized"
    /\ trail' = Append(trail, "Normalize")
    /\ UNCHANGED <<storage, state, try_number, error, listed, printed, enriched, xcom,
                   lpc, csv_data, ldf, fetched, calls, table>>

\* A validation that reports the missing columns and goes on.
ValidateSchemaAndGoOn ==
    /\ state[t_transform] = "running"
    /\ tpc = "normalized"
    /\ error' = [error EXCEPT ![t_transform] =
                    IF MissingRequired(df) THEN SchemaError(df) ELSE @]
    /\ tpc' = "validated"
    /\ trail' = Append(trail, "Validate")
    /\ UNCHANGED <<storage, state, try_number, listed, printed, df, enriched, xcom, lpc,
                   csv_data, ldf, fetched, calls, table>>

ValidateSchema ==
    /\ state[t_transform] = "running"
    /\ tpc = "normalized"
    /\ IF MissingRequired(df)
       THEN /\ Fails(t_transform, SchemaError(df))
            /\ UNCHANGED trail
       ELSE /\ tpc' = "validated"
            /\ trail' = Append(trail, "Validate")
            /\ UNCHANGED <<state, error, df, lpc, csv_data, ldf>>
    /\ UNCHANGED <<storage, try_number, listed, printed, enriched, xcom, fetched, calls,
                   table>>

FeatureEngineering ==
    /\ state[t_transform] = "running"
    /\ tpc = "validated"
    /\ LET r == Engineer(df)
       IN IF r.ok
          THEN /\ df' = r.val
               /\ tpc' = "engineered"
               /\ trail' = Append(trail, "Engineer")
               /\ UNCHANGED <<state, error, lpc, csv_data, ldf>>
          ELSE /\ Fails(t_transform, [r.err EXCEPT !.detail = c_timestamp])
               /\ UNCHANGED trail
    /\ UNCHANGED <<storage, try_number, listed, printed, enriched, xcom, fetched, calls,
                   table>>

\* return df.to_csv(index=False): the text becomes the task's XCom.
Serialize ==
    /\ state[t_transform] = "running"
    /\ tpc = "engineered"
    /\ enriched' = df
    /\ xcom' = to_csv(df)
    /\ Succeeds(t_transform)
    /\ tpc' = "idle"
    /\ df' = NoDf
    /\ trail' = Append(trail, "Serialize")
    /\ UNCHANGED <<storage, try_number, error, listed, printed, lpc, csv_data,
                   ldf, fetched, calls, table>>

\* What ti.xcom_pull can give the load task: the text the transform pushed,
\* or nothing or an empty text when the XCom backend holds none.
Pulled == {xcom, XNone, XEmptyStr}

\* csv_data = ti.xcom_pull(...), and the check for an empty hand-off.
PullXCom ==
    /\ state[t_load] = "running"
    /\ lpc = "start"
    /\ \E v \in Pulled :
        IF Falsy(v)
        THEN /\ Fails(t_load, NoDataError)
        ELSE /\ csv_data' = v
             /\ lpc' = "pulled"
             /\ UNCHANGED <<state, error, tpc, df, ldf>>
    /\ UNCHANGED <<storage, try_number, listed, printed, enriched, xcom, fetched, trail,
                   calls, table>>

\* df = pd.read_csv(StringIO(csv_data))
Deserialize ==
    /\ state[t_load] = "running"
    /\ lpc = "pulled"
    /\ ldf' = read_csv(csv_data)
    /\ lpc' = "deserialized"
    /\ trail' = Append(trail, "Deserialize")
    /\ UNCHANGED <<storage, state, try_number, error, listed, printed, tpc, df,
                   enriched, xcom, csv_data, fetched, calls, table>>

FixDataTypes ==
    /\ state[t_load] = "running"
    /\ lpc = "deserialized"
    /\ LET r == Coerce(ldf)
       IN IF r.ok
          THEN /\ ldf' = r.val
               /\ lpc' = "coerced"
               /\ trail' = Append(trail, "Coerce")
               /\ UNCHANGED <<state, error, tpc, df, csv_data>>
          ELSE /\ Fails(t_load, r.err)
               /\ UNCHANGED trail
    /\ UNCHANGED <<storage, try_number, listed, printed, enriched, xcom, fetched, calls,
                   table>>

\* client.load_table_from_dataframe(df, table_ref) and job.result(): the
\* whole table is appended.
LoadTable ==
    /\ state[t_load] = "running"
    /\ lpc = "coerced"
    /\ calls' = Append(calls, ldf)
    /\ table' = table \o ldf.rows
    /\ Succeeds(t_load)
    /\ lpc' = "idle"
    /\ csv_data' = XNone
    /\ ldf' = NoDf
    /\ trail' = Append(trail, "Load")
    /\ UNCHANGED <<storage, try_number, error, listed, printed, tpc, df, enriched, xcom,
                   fetched>>

Next ==
    \/ \E t \in Tasks : Start(t)
    \/ \E t \in Tasks : UpstreamFailed(t)
    \/ \E t \in Tasks : ExternalFailure(t)
    \/ ListObjects
    \/ log_gcs_files
    \/ Fetch
    \/ NormalizeSchema
    \/ ValidateSchema
    \/ FeatureEngineering
    \/ Serialize
    \/ PullXCom
    \/ Deserialize
    \/ FixDataTypes
    \/ LoadTable

Spec == Init /\ [][Next]_vars

\* The run over every way of writing the header of a well-formed object.
SpecStyled == InitStyled /\ [][Next]_vars

----------------------------------------------------------------------------
(* Properties *)

Normalized(label) == str_lower(str_strip(label))

Running(t) == state[t] = "running"

Ended(t) == state[t] \in {"up_for_retry", "failed"}

NotRun(t) == state[t] \in {"none", "upstream_failed"}

\* Some required name is not among the normalized labels of the stored object.
LacksRequired ==
    \E name \in {c_timestamp, c_log_level, c_service, c_message, c_user_id} :
        \A i \in 1..Len(storage.header) : Normalized(storage.header[i]) # name

FoundColumns == [i \in 1..Len(storage.header) |-> Normalized(storage.header[i])]

\* C1: when the normalized labels of the batch lack a required column, the
\* transform never gets past validation, an attempt that ends after the
\* download ends with the schema error naming the normalized columns found,
\* and no table is ever given to the warehouse load.
C1_MissingColumnRejected ==
    LacksRequired =>
        /\ tpc \notin {"validated", "engineered"}
        /\ state[t_transform] # "success"
        /\ xcom = XNone
        /\ (Ended(t_transform) /\ error[t_transform] # ExternalError) =>
                error[t_transform] =
                    Err("ValueError", "Missing required columns. Found:",
                        FoundColumns)
        /\ NotRun(t_load)
        /\ calls = <<>>
        /\ table = <<>>

C1_Witness ==
    /\ LacksRequired
    /\ state[t_transform] = "failed"
    /\ error[t_transform].msg = "Missing required columns. Found:"
    /\ error[t_transform].detail = FoundColumns
    /\ state[t_load] = "upstream_failed"

IsPrefix(s, t) == Len(s) <= Len(t) /\ s = SubSeq(t, 1, Len(s))

\* C2: the stages completed are always an initial part of Normalize,
\* Validate, Engineer, Serialize, Deserialize, Coerce, Load; an attempt in
\* which a stage raised has ended, and nothing later ran in it; a table is
\* given to the load only after the six earlier stages completed, and the
\* destination receives all lines of the batch or none.
C2_StagesInOrderAllOrNothing ==
    /\ [](/\ IsPrefix(trail, StageOrder)
          /\ \A t \in Tasks : error[t] # NoErr => Ended(t)
          /\ Ended(t_transform) =>
                /\ Len(trail) < Len(TransformStages)
                /\ NotRun(t_load) /\ lpc = "idle" /\ calls = <<>>
          /\ (Ended(t_load) /\ error[t_load] # ExternalError) =>
                /\ Len(trail) < Len(StageOrder) - 1
                /\ table = <<>>
          /\ \A i \in 1..Len(calls) :
                Len(calls[i].rows) = Len(storage.lines)
          /\ table # <<>> => /\ trail = StageOrder
                             /\ Len(table) = Len(storage.lines)
                             /\ state[t_load] = "success")
    /\ [][calls' # calls =>
            /\ trail = SubSeq(StageOrder, 1, Len(StageOrder) - 1)
            /\ table' \in {table, table \o calls'[Len(calls')].rows}]_vars

C2_Witness ==
    /\ trail = StageOrder
    /\ Len(table) >= 2
    /\ try_number[t_transform] = 2

\* A value no int64 stands for: a missing one, one beyond the int64 range,
\* or a text that is no number.
NoInt64(v) ==
    \/ IsMissing(v)
    \/ v = VHuge
    \/ (v.k = "object" /\ v.t.k \notin {"int", "float"})

NoFloat64(v) == v.k = "object" /\ v.t.k \notin {"int", "float", "huge"}

NoInstant(v) == v.k = "object" /\ v.t.k \notin {"stamp", "date"}

\* Some value of a coerced column of the handed-off text cannot be converted
\* to the column's target type.
HasUnconvertible(d) ==
    \E r \in 1..Len(d.rows) :
        \/ \E c \in {c_hour_of_day, c_log_level_encoded, c_message_length,
                     c_is_error, c_user_id} : NoInt64(Column(d, c)[r])
        \/ NoFloat64(Column(d, c_service_error_rate)[r])
        \/ \E c \in {c_timestamp, c_event_date} : NoInstant(Column(d, c)[r])

\* C3: a handed-off batch with a value that cannot be converted to its
\* target type never passes the coercion, and no table with it is given to
\* the warehouse load.
C3_UnconvertibleRejected ==
    (lpc = "coerced" \/ calls # <<>>) => ~HasUnconvertible(read_csv(xcom))

RetryOf(t) == state[t] = "up_for_retry" /\ state'[t] = "running"

\* C4 as stated: every retry of the transform or of the load downloads the
\* batch again and starts again from the first stage.
C4_EveryRetryStartsOver ==
    [][\A t \in {t_transform, t_load} :
            RetryOf(t) => /\ state'[t_transform] = "running"
                          /\ tpc' = "start"
                          /\ trail' = <<>>]_vars

\* C4 as amended: a retry never resumes inside a task.  A retry of the
\* transform starts from the download with nothing kept, and every attempt
\* asks for the download once; a retry of the load
\* starts from the XCom pull with the transform's stages and hand-off
\* untouched and no new download.  The hand-off and every table given to
\* the load are the same for the same stored batch.
C4_RetryRestartsItsTask ==
    /\ [][/\ RetryOf(t_transform) =>
                tpc' = "start" /\ df' = NoDf /\ trail' = <<>>
          /\ RetryOf(t_load) =>
                /\ lpc' = "start" /\ ldf' = NoDf /\ csv_data' = XNone
                /\ trail' = TransformStages
                /\ state'[t_transform] = "success"
                /\ fetched' = fetched /\ xcom' = xcom
          /\ xcom # XNone => xcom' = xcom]_vars
    /\ [](/\ Len(fetched) = IF tpc = "start" THEN try_number[t_transform] - 1
                             ELSE try_number[t_transform]
          /\ \A i \in 1..Len(fetched) : fetched[i] = object_name
          /\ \A i \in 1..Len(calls) : calls[i] = calls[1])

C4_Witness ==
    /\ try_number[t_transform] = 2
    /\ Len(fetched) = 2
    /\ try_number[t_load] = 2
    /\ Len(calls) = 2
    /\ state[t_load] = "success"

IsError(v) == v = VStr(TStr("ERROR"))

\* The rows with the same service value as row r.
SameService(d, r) ==
    {j \in 1..Len(d.rows) : Column(d, c_service)[j] = Column(d, c_service)[r]}

ErrorsAmong(d, rows) == {j \in rows : IsError(Column(d, c_log_level)[j])}

\* The rate of row r is the share of ERROR rows among the rows of its service.
RateIsShare(d, r) ==
    LET rate == Column(d, c_service_error_rate)[r]
    IN /\ rate.k = "float64"
       /\ rate.n * Cardinality(SameService(d, r)) =
            Cardinality(ErrorsAmong(d, SameService(d, r))) * rate.d
       /\ \A j \in SameService(d, r) : Column(d, c_service_error_rate)[j] = rate

IsErrorExact(d, r) ==
    Column(d, c_is_error)[r] =
        IF IsError(Column(d, c_log_level)[r]) THEN VInt(1) ELSE VInt(0)

\* C5 as stated: in the enriched output every row has is_error 1 exactly
\* when its log_level is "ERROR", and a service_error_rate equal to the
\* share of ERROR rows among the rows of its service.
C5_RateForEveryRow ==
    tpc = "engineered" =>
        \A r \in 1..Len(df.rows) : IsErrorExact(df, r) /\ RateIsShare(df, r)

\* C5 as amended: the same for every row whose service is present; a row
\* whose service is missing has a missing service_error_rate.
C5_RateForRowsWithService ==
    tpc = "engineered" =>
        \A r \in 1..Len(df.rows) :
            /\ IsErrorExact(df, r)
            /\ IF IsMissing(Column(df, c_service)[r])
               THEN Column(df, c_service_error_rate)[r] = NaN
               ELSE RateIsShare(df, r)

C5_Witness ==
    /\ tpc = "engineered"
    /\ Len(df.rows) = 2
    /\ Column(df, c_service_error_rate)[1] = VFloat(1, 2)
    /\ Column(df, c_service_error_rate)[2] = VFloat(1, 2)
    /\ Column(df, c_is_error) = <<VInt(0), VInt(1)>>

LevelCode(s) == CASE s = "INFO" -> 0 [] s = "WARN" -> 1 [] s = "ERROR" -> 2

IsLevel(v) ==
    v.k = "object" /\ v.t.k = "str" /\ v.t.s \in {"INFO", "WARN", "ERROR"}

\* The encoding of a row of a DataFrame: the code as a number, or missing.
EncodedRight(level, code) ==
    IF IsLevel(level)
    THEN code \in {VInt(LevelCode(level.t.s)), VFloat(LevelCode(level.t.s), 1)}
    ELSE code = NaN

FileColumn(file, name, r) ==
    file.lines[r][CHOOSE i \in 1..Len(file.header) : file.header[i] = name]

\* C6: log_level_encoded is 0, 1, 2 for INFO, WARN, ERROR and missing for
\* any other level, in the enriched DataFrame and in the text handed off;
\* every table given to the warehouse load holds mapped levels only, each
\* with its code as an int64.
C6_EncodingNeverDefaulted ==
    /\ tpc = "engineered" =>
        \A r \in 1..Len(df.rows) :
            EncodedRight(Column(df, c_log_level)[r],
                         Column(df, c_log_level_encoded)[r])
    /\ xcom # XNone =>
        \A r \in 1..Len(xcom.lines) :
            LET level == FileColumn(xcom, c_log_level, r)
                code == FileColumn(xcom, c_log_level_encoded, r)
            IN IF level.k = "str" /\ level.s \in {"INFO", "WARN", "ERROR"}
               THEN code \in {TInt(LevelCode(level.s)),
                              TFloat(LevelCode(level.s), 1)}
               ELSE code = TEmpty
    /\ \A i \in 1..Len(calls) : \A r \in 1..Len(calls[i].rows) :
            LET level == Column(calls[i], c_log_level)[r]
            IN /\ IsLevel(level)
               /\ Column(calls[i], c_log_level_encoded)[r] =
                    VInt(LevelCode(level.t.s))

C6_Witness ==
    /\ state[t_load] = "failed"
    /\ error[t_load].detail = c_log_level_encoded
    /\ calls = <<>>
    /\ Len(xcom.lines) = 2
    /\ FileColumn(xcom, c_log_level, 1) = TStr("ERROR")
    /\ FileColumn(xcom, c_log_level_encoded, 1) = TFloat(2, 1)
    /\ FileColumn(xcom, c_log_level, 2) = TStr("DEBUG")
    /\ FileColumn(xcom, c_log_level_encoded, 2) = TEmpty

\* The header writes the five required names, each in some case and padding.
FiveRequiredNames ==
    /\ Len(storage.header) = Len(Keys)
    /\ \A i \in 1..Len(Keys) :
        storage.header[i] \in {Styled(KeyLabel[Keys[i]], st) : st \in Styles}

\* C7: when the header writes the five required names in any mix of case
\* and padding, the normalized labels are exactly the five lower-case names
\* and the transform never raises the missing-columns error.
C7_StyledHeaderValidates ==
    FiveRequiredNames =>
        /\ tpc \in {"normalized", "validated"} =>
                df.columns = <<c_timestamp, c_log_level, c_service, c_message,
                               c_user_id>>
        /\ error[t_transform].msg # "Missing required columns. Found:"

C7_Witness ==
    /\ FiveRequiredNames
    /\ tpc = "validated"
    /\ storage.header[1] = str_upper(c_timestamp)
    /\ storage.header[2] = <<" ", " ", "L">> \o Tail(c_log_level) \o <<" ">>
    /\ storage.header[5] = Capitalized(c_user_id)

\* Every field of every row is well-formed: the timestamp is an instant,
\* the level is one of the mapped ones and the user id is an integer.
WellFormed(d) ==
    \A r \in 1..Len(d.rows) :
        /\ Column(d, c_timestamp)[r].k = "datetime64"
        /\ IsLevel(Column(d, c_log_level)[r])
        /\ Column(d, c_user_id)[r].k = "int64"

\* The same value up to its type: equal, or the same number as int64 and
\* as float64.
SameValue(a, b) ==
    \/ a = b
    \/ a.k = "int64" /\ b = VFloat(a.n, 1)
    \/ b.k = "int64" /\ a = VFloat(b.n, 1)

C9_EmptyHandOffRejected ==
    /\ lpc \in {"pulled", "deserialized", "coerced"} =>
            csv_data # XNone /\ csv_data # XEmptyStr
    /\ error[t_load] = NoDataError =>
            /\ Ended(t_load)
            /\ trail = TransformStages
            /\ ldf = NoDf
            /\ table = <<>>
            /\ Len(calls) < try_number[t_load]

C9_Witness ==
    /\ error[t_load] = NoDataError
    /\ state[t_load] = "failed"
    /\ calls = <<>>
    /\ xcom # XNone

\* C10: the transform runs only after the listing and the logging task
\* succeeded, and the load only after the transform; when the listing or
\* the logging task failed, neither runs, nothing is downloaded and nothing
\* loaded; and what the transform downloads is always the one fixed object,
\* whatever was listed.
C10_TransformAfterListingAndLogging ==
    /\ ~NotRun(t_transform) =>
            state[t_list] = "success" /\ state[t_log] = "success"
    /\ ~NotRun(t_load) => state[t_transform] = "success"
    /\ (state[t_list] = "failed" \/ state[t_log] = "failed") =>
            /\ NotRun(t_transform) /\ NotRun(t_load)
            /\ fetched = <<>> /\ calls = <<>> /\ table = <<>>
    /\ \A i \in 1..Len(fetched) :
            fetched[i] = "sample_logs.csv" /\ fetched[i] # listed.names[1]

C10_Witness ==
    /\ state[t_list] = "success"
    /\ state[t_log] = "failed"
    /\ state[t_transform] = "upstream_failed"
    /\ state[t_load] = "upstream_failed"

====
